---- MODULE Spec2Model ----
(***************************************************************************)
(* A model of chrome/content/zotero/xpcom/citeprocRsBridge.js: the         *)
(* memoized loader Zotero.CiteprocRs.init and the Zotero.CiteprocRs.Engine *)
(* session that drives one citeproc-rs Driver handle.                      *)
(*                                                                         *)
(* Three specifications share the module:                                  *)
(*   Spec      the Engine session: every public method is one action;      *)
(*   LoadSpec  the calls of Zotero.CiteprocRs.init, interleaved at their   *)
(*             await points;                                               *)
(*   PureSpec  the pure helpers applied to enumerated inputs.              *)
(* JavaScript exceptions are the "raised" flag of the context record that  *)
(* the method operators thread through their statements.                   *)
(***************************************************************************)
EXTENDS Integers, Sequences, FiniteSets, TLC

VARIABLES
    engine,      \* the Engine object's fields (_format, _driver, ...)
    handles,     \* every Driver handle constructed so far, by handle number
    freeCalled,  \* history: Engine.free has been invoked on the session
    deferred,    \* Zotero.CiteprocRs.deferred
    Driver,      \* Zotero.CiteprocRs.Driver has been assigned
    pc,          \* position of each init() call
    promise,     \* state of the promise each init() call returned
    loads,       \* subscript loads started
    fetches,     \* wasm binary fetches started
    wasmInits,   \* wasm initializations started
    query,       \* PureSpec: the helper and its inputs
    answer       \* PureSpec: its result

sessionVars == <<engine, handles, freeCalled>>
loadVars == <<deferred, Driver, pc, promise, loads, fetches, wasmInits>>
pureVars == <<query, answer>>
vars == <<engine, handles, freeCalled, deferred, Driver, pc, promise,
          loads, fetches, wasmInits, query, answer>>

(***************************************************************************)
(* Bounds.                                                                 *)
(***************************************************************************)
MaxHandles == 3    \* Driver handles one session may construct
MaxCits == 2       \* length of a citation list passed to a method
MaxUncited == 1    \* length of an item id list passed to a method
MaxCalls == 4      \* calls of Zotero.CiteprocRs.init
MaxPairs == 2      \* length of citationsPre and of citationsPost in a preview
MaxItems == 2      \* items of a citation whose cluster is built

(***************************************************************************)
(* JavaScript values.  A string is a sequence of fragments (one character  *)
(* each wherever it is parsed or formatted) and concatenation is \o, so    *)
(* that number formatting and parseInt are computed and not assumed.       *)
(***************************************************************************)
Undefined == [ty |-> "undefined", num |-> 0, str |-> <<>>]
NaN == [ty |-> "NaN", num |-> 0, str |-> <<>>]
JSNum(n) == [ty |-> "number", num |-> n, str |-> <<>>]
JSStr(s) == [ty |-> "string", num |-> 0, str |-> s]
JSBool(b) == [ty |-> "boolean", num |-> IF b THEN 1 ELSE 0, str |-> <<>>]

\* ToBoolean: undefined, NaN, 0, "" and false are falsy.
Truthy(v) ==
    CASE v.ty = "undefined" -> FALSE
      [] v.ty = "NaN" -> FALSE
      [] v.ty = "number" -> v.num # 0
      [] v.ty = "boolean" -> v.num # 0
      [] v.ty = "string" -> v.str # <<>>
      [] OTHER -> TRUE

DigitChars == <<"0", "1", "2", "3", "4", "5", "6", "7", "8", "9">>

DigitVal(c) ==
    IF \E d \in 1..10 : DigitChars[d] = c
    THEN (CHOOSE d \in 1..10 : DigitChars[d] = c) - 1
    ELSE -1

RECURSIVE NatDigits(_)
NatDigits(n) ==
    IF n < 10 THEN <<DigitChars[n + 1]>>
    ELSE NatDigits(n \div 10) \o <<DigitChars[(n % 10) + 1]>>

\* Number::toString of an integer, as a template literal `${n}` applies it.
NumToStr(n) == IF n < 0 THEN <<"-">> \o NatDigits(-n) ELSE NatDigits(n)

\* The template literal `${v}`: a string is itself, a number is formatted.
TemplateStr(v) ==
    CASE v.ty = "string" -> v.str
      [] v.ty = "number" -> NumToStr(v.num)
      [] v.ty = "NaN" -> <<"N", "a", "N">>
      [] v.ty = "boolean" -> IF v.num # 0 THEN <<"t", "r", "u", "e">>
                                          ELSE <<"f", "a", "l", "s", "e">>
      [] OTHER -> <<"u", "n", "d", "e", "f", "i", "n", "e", "d">>

RECURSIVE SkipSpaces(_)
SkipSpaces(s) ==
    IF s # <<>> /\ Head(s) = " " THEN SkipSpaces(Tail(s)) ELSE s

\* The longest prefix of decimal digits of s.
RECURSIVE DigitPrefix(_)
DigitPrefix(s) ==
    IF s # <<>> /\ DigitVal(Head(s)) >= 0
    THEN <<Head(s)>> \o DigitPrefix(Tail(s))
    ELSE <<>>

RECURSIVE DigitsValue(_, _)
DigitsValue(s, acc) ==
    IF s = <<>> THEN acc ELSE DigitsValue(Tail(s), 10 * acc + DigitVal(Head(s)))

\* parseInt(string) with no radix: leading white space is skipped, an
\* optional sign is read, then the longest run of decimal digits; NaN when
\* there is none.  (Strings with a 0x prefix are not among the inputs.)
parseInt(s) ==
    LET t == SkipSpaces(s)
        neg == t # <<>> /\ Head(t) = "-"
        u == IF t # <<>> /\ Head(t) \in {"-", "+"} THEN Tail(t) ELSE t
        d == DigitPrefix(u)
    IN  IF d = <<>> THEN NaN
        ELSE JSNum(IF neg THEN -DigitsValue(d, 0) ELSE DigitsValue(d, 0))

(***************************************************************************)
(* The Driver handle (citeproc-rs), the item provider and their faults.    *)
(* The environment of one method invocation says which external call, if   *)
(* any, raises in it.                                                      *)
(***************************************************************************)
NoDriver == 0          \* this._driver is undefined
NoID == "<undefined>"  \* an absent citationID / cluster id

NoFault == [raises |-> "none", released |-> TRUE, missing |-> {}]

Envs ==
    { NoFault,
      [NoFault EXCEPT !.raises = "free"],
      [NoFault EXCEPT !.raises = "free", !.released = FALSE],
      [NoFault EXCEPT !.raises = "new"],
      [NoFault EXCEPT !.raises = "setOutputFormat"],
      [NoFault EXCEPT !.missing = {1}],
      [NoFault EXCEPT !.missing = {12}] }

ReleasedHandle ==
    [live |-> FALSE, format |-> "", refs |-> {}, clusters |-> {},
     order |-> <<>>, uncited |-> <<>>, updates |-> {}]

\* construct(options): a live handle with no document state.
FreshHandle(options) ==
    [live |-> TRUE, format |-> options.format, refs |-> {}, clusters |-> {},
     order |-> <<>>, uncited |-> <<>>, updates |-> {}]

Range(s) == { s[i] : i \in 1..Len(s) }

RECURSIVE Dedup(_)
Dedup(s) ==
    IF s = <<>> THEN <<>>
    ELSE LET r == Dedup(SubSeq(s, 1, Len(s) - 1))
         IN  IF s[Len(s)] \in Range(r) THEN r ELSE Append(r, s[Len(s)])

RECURSIVE Flatten(_)
Flatten(ss) == IF ss = <<>> THEN <<>> ELSE Head(ss) \o Flatten(Tail(ss))

\* The reference ids the handle's document cites, in document order.
CitedIds(h) ==
    Flatten([i \in 1..Len(h.order) |->
        IF \E c \in h.clusters : c.id = h.order[i].id
        THEN LET c == CHOOSE c \in h.clusters : c.id = h.order[i].id
             IN  [j \in 1..Len(c.cites) |-> c.cites[j].id]
        ELSE <<>>])

\* handle.makeBibliography(): one {id, value} entry per cited or uncited
\* reference; the value stands for the engine's rendering.
BibliographyEntries(h) ==
    LET ids == Dedup(CitedIds(h) \o h.uncited)
    IN  [i \in 1..Len(ids) |-> [id |-> ids[i], value |-> <<"R">> \o ids[i]]]

BibliographyMeta ==
    [maxOffset |-> 2, lineSpacing |-> 1, entrySpacing |-> 0, hangingIndent |-> TRUE,
     secondFieldAlign |-> FALSE,
     formatMeta |-> [markupPre |-> <<"<div>">>, markupPost |-> <<"</div>">>]]

\* What a call does to a live handle.
DriverEffect(h, call) ==
    CASE call.fn = "setOutputFormat" -> [h EXCEPT !.format = call.fmt]
      [] call.fn = "insertReference" -> [h EXCEPT !.refs = @ \cup {call.ref.id}]
      [] call.fn = "insertCluster" ->
            [h EXCEPT !.clusters = {c \in @ : c.id # call.cluster.id} \cup {call.cluster},
                      !.updates = @ \cup {call.cluster.id}]
      [] call.fn = "setClusterOrder" -> [h EXCEPT !.order = call.order]
      [] call.fn = "includeUncited" -> [h EXCEPT !.uncited = call.ids]
      [] call.fn = "batchedUpdates" -> [h EXCEPT !.updates = {}]
      [] OTHER -> h   \* previewCluster, builtCluster, bibliographyMeta, makeBibliography

\* What a call on a live handle returns.
DriverResult(h, call) ==
    CASE call.fn = "batchedUpdates" -> h.updates
      [] call.fn = "makeBibliography" -> BibliographyEntries(h)
      [] call.fn = "bibliographyMeta" -> BibliographyMeta
      [] call.fn = "previewCluster" -> <<"preview">>
      [] call.fn = "builtCluster" -> <<"built">>
      [] OTHER -> Undefined

\* The context a method runs in: the Engine object, the handles, the handle
\* calls issued so far, whether an exception is propagating, the value of
\* the last expression, and the environment.
Ctx(eng, hs, env) ==
    [eng |-> eng, hs |-> hs, calls |-> <<>>, raised |-> FALSE, ret |-> Undefined,
     env |-> env]

Raise(ctx) == [ctx EXCEPT !.raised = TRUE, !.ret = Undefined]

\* this._driver.<fn>(...): a method call on the handle this._driver names.
DriverCall(ctx, call) ==
    IF ctx.raised THEN ctx
    ELSE IF call.h = NoDriver THEN Raise(ctx)   \* TypeError: no handle, no call
    ELSE
      LET logged == [ctx EXCEPT !.calls = Append(@, call)]
          n == call.h
      IN  IF ~ctx.hs[n].live
          THEN \* a call on a released handle raises; a second free raises
               \* or returns
               IF call.fn # "free" \/ ctx.env.raises = "free"
               THEN Raise(logged)
               ELSE [logged EXCEPT !.ret = Undefined]
          ELSE IF call.fn = "free"
          THEN IF ctx.env.raises = "free"
               THEN Raise([logged EXCEPT
                        !.hs[n] = IF ctx.env.released THEN ReleasedHandle ELSE @])
               ELSE [logged EXCEPT !.hs[n] = ReleasedHandle, !.ret = Undefined]
          ELSE IF call.fn = ctx.env.raises
          THEN Raise(logged)
          ELSE [logged EXCEPT !.hs[n] = DriverEffect(@, call),
                              !.ret = DriverResult(ctx.hs[n], call)]

\* new Zotero.CiteprocRs.Driver(options): the new handle's number, or raises.
NewDriver(ctx, options) ==
    IF ctx.raised THEN ctx
    ELSE
      LET logged == [ctx EXCEPT !.calls =
                        Append(@, [fn |-> "new", h |-> Len(ctx.hs) + 1, options |-> options])]
      IN  IF ctx.env.raises = "new" THEN Raise(logged)
          ELSE [logged EXCEPT !.hs = Append(@, FreshHandle(options)),
                              !.ret = Len(ctx.hs) + 1]

\* this.sys.retrieveItem(id): the provider's record of the item, or raises.
retrieveItem(ctx, id) ==
    IF ctx.raised THEN ctx
    ELSE IF id.num \in ctx.env.missing THEN Raise(ctx)
    ELSE [ctx EXCEPT !.ret = [id |-> id]]

(***************************************************************************)
(* Zotero.CiteprocRs.Engine: one operator per method, a context in and a   *)
(* context out.  A statement is skipped while an exception propagates.     *)
(***************************************************************************)
additionalCSLProperties ==
    <<"locator", "label", "suppress-author", "author-only", "prefix", "suffix">>

\* The Engine object before its constructor has run.
NoEngine ==
    [constructed |-> FALSE, _styleXML |-> "", _overrideLocale |-> FALSE, locale |-> "",
     _format |-> "", _driver |-> NoDriver, styleID |-> "", hasBibliography |-> FALSE,
     sort_citations |-> FALSE]

_resetDriver_NoRelease(ctx) ==
    LET options == [style |-> ctx.eng._styleXML, format |-> ctx.eng._format,
                    localeOverride |-> IF ctx.eng._overrideLocale THEN ctx.eng.locale ELSE ""]
        c2 == NewDriver(ctx, options)
    IN  IF c2.raised THEN c2 ELSE [c2 EXCEPT !.eng._driver = c2.ret]

_resetDriver_SwallowRelease(ctx) ==
    LET c0 == IF ctx.eng._driver # NoDriver
              THEN DriverCall(ctx, [fn |-> "free", h |-> ctx.eng._driver])
              ELSE ctx
        c1 == [c0 EXCEPT !.raised = FALSE]
        options == [style |-> c1.eng._styleXML, format |-> c1.eng._format,
                    localeOverride |-> IF c1.eng._overrideLocale THEN c1.eng.locale ELSE ""]
        c2 == NewDriver(c1, options)
    IN  IF c2.raised THEN c2 ELSE [c2 EXCEPT !.eng._driver = c2.ret]

_resetDriver(ctx) ==
    LET c1 == IF ctx.eng._driver # NoDriver
              THEN DriverCall(ctx, [fn |-> "free", h |-> ctx.eng._driver])
              ELSE ctx
        options == [style |-> c1.eng._styleXML, format |-> c1.eng._format,
                    localeOverride |-> IF c1.eng._overrideLocale THEN c1.eng.locale ELSE ""]
        c2 == NewDriver(c1, options)
    IN  IF c2.raised THEN c2 ELSE [c2 EXCEPT !.eng._driver = c2.ret]

constructor(ctx, style, styleXML, locale, format, overrideLocale) ==
    LET c1 == [ctx EXCEPT !.eng._styleXML = styleXML,
                          !.eng._overrideLocale = overrideLocale,
                          !.eng.locale = locale,
                          !.eng._format = format]
        c2 == _resetDriver(c1)
    IN  IF c2.raised THEN c2
        ELSE [c2 EXCEPT !.eng.styleID = style.styleID,
                        !.eng.hasBibliography = style._hasBibliography,
                        !.eng.sort_citations = TRUE,
                        !.eng.constructed = TRUE]

free(ctx, ignoreErrors) ==
    LET c1 == DriverCall(ctx, [fn |-> "free", h |-> ctx.eng._driver])
    IN  IF c1.raised /\ ignoreErrors THEN [c1 EXCEPT !.raised = FALSE] ELSE c1

setOutputFormat_Always(ctx, format) ==
    LET f == IF format = "text" THEN "plain" ELSE format
        c1 == [ctx EXCEPT !.eng._format = f]
    IN  DriverCall(c1, [fn |-> "setOutputFormat", h |-> c1.eng._driver, fmt |-> f])

setOutputFormat(ctx, format) ==
    LET f == IF format = "text" THEN "plain" ELSE format
    IN  IF ctx.eng._format # f
        THEN LET c1 == [ctx EXCEPT !.eng._format = f]
             IN  DriverCall(c1, [fn |-> "setOutputFormat", h |-> c1.eng._driver, fmt |-> f])
        ELSE ctx

RECURSIVE CiteProperties_Swapped(_, _, _)
CiteProperties_Swapped(cite, citationItem, keys) ==
    IF keys = <<>> THEN cite
    ELSE LET key == Head(keys)
             next == IF ~Truthy(citationItem[key]) THEN cite
                     ELSE CASE key = "suppress-author" -> [cite EXCEPT !.mode = "AuthorOnly"]
                            [] key = "author-only" -> [cite EXCEPT !.mode = "SuppressAuthor"]
                            [] OTHER -> [cite EXCEPT ![key] = citationItem[key]]
         IN  CiteProperties_Swapped(next, citationItem, Tail(keys))

\* additionalCSLProperties.forEach(...) on one cite.
RECURSIVE CiteProperties(_, _, _)
CiteProperties(cite, citationItem, keys) ==
    IF keys = <<>> THEN cite
    ELSE LET key == Head(keys)
             next == IF ~Truthy(citationItem[key]) THEN cite
                     ELSE CASE key = "suppress-author" -> [cite EXCEPT !.mode = "SuppressAuthor"]
                            [] key = "author-only" -> [cite EXCEPT !.mode = "AuthorOnly"]
                            [] OTHER -> [cite EXCEPT ![key] = citationItem[key]]
         IN  CiteProperties(next, citationItem, Tail(keys))

NoMode == "<absent>"

NewCite(id) ==
    [id |-> id, mode |-> NoMode, locator |-> Undefined, locators |-> Undefined,
     label |-> Undefined, prefix |-> Undefined, suffix |-> Undefined]

\* The loop of _insertCitationReferences over citation.citationItems.
RECURSIVE CitationItemsLoop(_, _, _)
CitationItemsLoop(ctx, items, cites) ==
    IF ctx.raised THEN ctx
    ELSE IF items = <<>> THEN [ctx EXCEPT !.ret = cites]
    ELSE
      LET citationItem == Head(items)
          c1 == retrieveItem(ctx, citationItem.id)
      IN  IF c1.raised THEN c1
          ELSE
            LET citeprocItem == [c1.ret EXCEPT !.id = TemplateStr(@)]
                c2 == DriverCall(c1, [fn |-> "insertReference", h |-> c1.eng._driver,
                                      ref |-> citeprocItem])
                cite == CiteProperties(NewCite(citeprocItem.id), citationItem,
                                       additionalCSLProperties)
            IN  CitationItemsLoop(c2, Tail(items), Append(cites, cite))

RECURSIVE _insertCitationReferences_NoRegister(_, _)
_insertCitationReferences_NoRegister(ctx, citation) ==
    LET items == citation.citationItems
    IN  IF ctx.raised THEN ctx
        ELSE IF items = <<>> THEN [ctx EXCEPT !.ret = <<>>]
        ELSE
          LET citationItem == items[Len(items)]
              c0 == _insertCitationReferences_NoRegister(
                        ctx, [citation EXCEPT !.citationItems = SubSeq(items, 1, Len(items) - 1)])
              c1 == retrieveItem(c0, citationItem.id)
          IN  IF c1.raised THEN c1
              ELSE
                LET citeprocItem == [c1.ret EXCEPT !.id = TemplateStr(@)]
                    cite == CiteProperties(NewCite(citeprocItem.id), citationItem,
                                           additionalCSLProperties)
                IN  [c1 EXCEPT !.ret = Append(c0.ret, cite)]

_insertCitationReferences(ctx, citation) ==
    CitationItemsLoop(ctx, citation.citationItems, <<>>)

\* typeof noteIndex == "string" ? parseInt(noteIndex) : noteIndex
NormalizeNoteIndex(noteIndex) ==
    IF noteIndex.ty = "string" THEN parseInt(noteIndex.str) ELSE noteIndex

ClusterOrderEntry_RawNote(pair) ==
    [id |-> pair[1], note |-> IF Truthy(pair[2]) THEN pair[2] ELSE Undefined]

\* One iteration of _getClusterOrder's loop: pair = [citationID, noteIndex].
ClusterOrderEntry(pair) ==
    LET noteIndex == NormalizeNoteIndex(pair[2])
    IN  [id |-> pair[1], note |-> IF Truthy(noteIndex) THEN noteIndex ELSE Undefined]

_getClusterOrder(citations) ==
    [i \in 1..Len(citations) |-> ClusterOrderEntry(citations[i])]

\* Array.prototype.splice(start, 0, item) for 0 <= start <= length.
Splice(arr, start, item) ==
    SubSeq(arr, 1, start) \o <<item>> \o SubSeq(arr, start + 1, Len(arr))

\* The order previewCitationCluster hands to previewCluster.
PreviewOrder_Appended(citation, citationsPre, citationsPost) ==
    LET noteIndex == NormalizeNoteIndex(citation.properties.noteIndex)
        thisClusterOrder ==
            [id |-> NoID, note |-> IF Truthy(noteIndex) THEN noteIndex ELSE Undefined]
        allClusterOrder == _getClusterOrder(citationsPre \o citationsPost)
    IN  Append(allClusterOrder, thisClusterOrder)

PreviewOrder(citation, citationsPre, citationsPost) ==
    LET noteIndex == NormalizeNoteIndex(citation.properties.noteIndex)
        thisClusterOrder ==
            [id |-> NoID, note |-> IF Truthy(noteIndex) THEN noteIndex ELSE Undefined]
        allClusterOrder == _getClusterOrder(citationsPre \o citationsPost)
    IN  Splice(allClusterOrder, Len(citationsPre), thisClusterOrder)

insertCluster_Partial(ctx, citation) ==
    LET c1 == _insertCitationReferences(ctx, citation)
        cluster == [id |-> citation.citationID,
                    cites |-> IF c1.raised THEN <<>> ELSE c1.ret, note |-> Undefined]
        c2 == DriverCall([c1 EXCEPT !.raised = FALSE],
                         [fn |-> "insertCluster", h |-> c1.eng._driver, cluster |-> cluster])
    IN  IF c1.raised \/ c2.raised THEN Raise(c2) ELSE [c2 EXCEPT !.ret = cluster]

insertCluster_WithNote(ctx, citation) ==
    LET c1 == _insertCitationReferences(ctx, citation)
        noteIndex == NormalizeNoteIndex(citation.properties.noteIndex)
    IN  IF c1.raised THEN c1
        ELSE LET cluster == [id |-> citation.citationID, cites |-> c1.ret,
                             note |-> IF Truthy(noteIndex) THEN noteIndex ELSE Undefined]
                 c2 == DriverCall(c1, [fn |-> "insertCluster", h |-> c1.eng._driver,
                                       cluster |-> cluster])
             IN  IF c2.raised THEN c2 ELSE [c2 EXCEPT !.ret = cluster]

insertCluster(ctx, citation) ==
    LET c1 == _insertCitationReferences(ctx, citation)
    IN  IF c1.raised THEN c1
        ELSE LET cluster == [id |-> citation.citationID, cites |-> c1.ret, note |-> Undefined]
                 c2 == DriverCall(c1, [fn |-> "insertCluster", h |-> c1.eng._driver,
                                       cluster |-> cluster])
             IN  IF c2.raised THEN c2 ELSE [c2 EXCEPT !.ret = cluster]

previewCitationCluster_Inserting(ctx, citation, citationsPre, citationsPost, outputFormat, randomID) ==
    LET cit == IF citation.citationID = NoID
               THEN [citation EXCEPT !.citationID = randomID] ELSE citation
        c1 == insertCluster(ctx, cit)
    IN  IF c1.raised THEN c1
        ELSE LET cluster == [id |-> NoID, cites |-> c1.ret.cites, note |-> Undefined]
                 allClusterOrder == PreviewOrder(cit, citationsPre, citationsPost)
             IN  DriverCall(c1, [fn |-> "previewCluster", h |-> c1.eng._driver,
                                 cluster |-> cluster, order |-> allClusterOrder,
                                 fmt |-> outputFormat])

\* randomID is what Zotero.Utilities.randomString(10) returns if it is called.
\* The citation object is the caller's: "citation" in the result is the
\* object as the method leaves it.
previewCitationCluster(ctx, citation, citationsPre, citationsPost, outputFormat, randomID) ==
    LET cit == IF citation.citationID = NoID
               THEN [citation EXCEPT !.citationID = randomID] ELSE citation
        c1 == _insertCitationReferences(ctx, cit)
    IN  IF c1.raised THEN c1
        ELSE LET cluster == [id |-> NoID, cites |-> c1.ret, note |-> Undefined]
                 allClusterOrder == PreviewOrder(cit, citationsPre, citationsPost)
             IN  DriverCall(c1, [fn |-> "previewCluster", h |-> c1.eng._driver,
                                 cluster |-> cluster, order |-> allClusterOrder,
                                 fmt |-> outputFormat])

appendCitationCluster(ctx, citation) ==
    LET c1 == insertCluster(ctx, citation)
    IN  DriverCall(c1, [fn |-> "builtCluster", h |-> c1.eng._driver,
                        id |-> citation.citationID])

setClusterOrder(ctx, citations) ==
    LET clusters == _getClusterOrder(citations)
    IN  DriverCall(ctx, [fn |-> "setClusterOrder", h |-> ctx.eng._driver, order |-> clusters])

getBatchedUpdates(ctx) ==
    DriverCall(ctx, [fn |-> "batchedUpdates", h |-> ctx.eng._driver])

\* The loop of updateUncitedItems over itemIDs.
RECURSIVE UncitedLoop(_, _, _)
UncitedLoop(ctx, itemIDs, referenceIDs) ==
    IF ctx.raised THEN ctx
    ELSE IF itemIDs = <<>> THEN [ctx EXCEPT !.ret = referenceIDs]
    ELSE
      LET c1 == retrieveItem(ctx, Head(itemIDs))
      IN  IF c1.raised THEN c1
          ELSE
            LET citeprocItem == [c1.ret EXCEPT !.id = TemplateStr(@)]
                c2 == DriverCall(c1, [fn |-> "insertReference", h |-> c1.eng._driver,
                                      ref |-> citeprocItem])
            IN  UncitedLoop(c2, Tail(itemIDs), Append(referenceIDs, citeprocItem.id))

updateUncitedItems_Additive(ctx, itemIDs) ==
    LET c1 == UncitedLoop(ctx, itemIDs, <<>>)
    IN  IF c1.raised THEN c1
        ELSE DriverCall(c1, [fn |-> "includeUncited", h |-> c1.eng._driver,
                             ids |-> c1.hs[c1.eng._driver].uncited \o c1.ret])

updateUncitedItems(ctx, itemIDs) ==
    LET c1 == UncitedLoop(ctx, itemIDs, <<>>)
    IN  IF c1.raised THEN c1
        ELSE DriverCall(c1, [fn |-> "includeUncited", h |-> c1.eng._driver, ids |-> c1.ret])

updateItems(ctx, itemIDs) == updateUncitedItems(ctx, itemIDs)

\* for (let citation of citations) this.insertCluster(citation)
RECURSIVE InsertClustersLoop(_, _)
InsertClustersLoop(ctx, citations) ==
    IF ctx.raised \/ citations = <<>> THEN ctx
    ELSE InsertClustersLoop(insertCluster(ctx, Head(citations)), Tail(citations))

CitationPairs(citations) ==
    [i \in 1..Len(citations) |->
        <<citations[i].citationID, citations[i].properties.noteIndex>>]

rebuildProcessorState_NoReset(ctx, citations, format, uncited) ==
    LET c1 == [ctx EXCEPT !.eng._format = format]
        c3 == InsertClustersLoop(c1, citations)
        c4 == IF c3.raised THEN c3 ELSE setClusterOrder(c3, CitationPairs(citations))
    IN  IF c4.raised THEN c4 ELSE updateUncitedItems(c4, uncited)

rebuildProcessorState_OrderFirst(ctx, citations, format, uncited) ==
    LET c1 == [ctx EXCEPT !.eng._format = format]
        c2 == _resetDriver(c1)
        c3 == IF c2.raised THEN c2 ELSE setClusterOrder(c2, CitationPairs(citations))
        c4 == InsertClustersLoop(c3, citations)
    IN  IF c4.raised THEN c4 ELSE updateUncitedItems(c4, uncited)

rebuildProcessorState(ctx, citations, format, uncited) ==
    LET c1 == [ctx EXCEPT !.eng._format = format]
        c2 == _resetDriver(c1)
        c3 == InsertClustersLoop(c2, citations)
        c4 == IF c3.raised THEN c3 ELSE setClusterOrder(c3, CitationPairs(citations))
    IN  IF c4.raised THEN c4 ELSE updateUncitedItems(c4, uncited)

WrapEntry_Unwrapped(format, value) == value

\* The wrapping of one bibliography entry's value by this._format.
WrapEntry(format, value) ==
    IF format = "html" THEN <<"<div class=\"csl-entry\">">> \o value \o <<"</div>">>
    ELSE IF format = "plain" THEN value \o <<"\n">>
    ELSE value

makeBibliography(ctx) ==
    LET c1 == DriverCall(ctx, [fn |-> "bibliographyMeta", h |-> ctx.eng._driver])
    IN  IF c1.raised THEN c1
        ELSE
          LET m == c1.ret
              c2 == DriverCall(c1, [fn |-> "makeBibliography", h |-> c1.eng._driver])
          IN  IF c2.raised THEN c2
              ELSE
                LET bibliographyEntries == c2.ret
                    entry_ids == [i \in 1..Len(bibliographyEntries) |->
                                     <<bibliographyEntries[i].id>>]
                    strings == [i \in 1..Len(bibliographyEntries) |->
                                   WrapEntry(c2.eng._format, bibliographyEntries[i].value)]
                    bibliographyMeta ==
                        [entry_ids |-> entry_ids,
                         maxOffset |-> m.maxOffset, lineSpacing |-> m.lineSpacing,
                         entrySpacing |-> m.entrySpacing, hangingIndent |-> m.hangingIndent,
                         secondFieldAlign |-> m.secondFieldAlign, formatMeta |-> m.formatMeta,
                         maxoffset |-> m.maxOffset, linespacing |-> m.lineSpacing,
                         entryspacing |-> m.entrySpacing, hangingindent |-> m.hangingIndent,
                         bibstart |-> m.formatMeta.markupPre,
                         bibend |-> m.formatMeta.markupPost,
                         second_field_align |-> m.secondFieldAlign]
                IN  [c2 EXCEPT !.ret = <<bibliographyMeta, strings>>]

(***************************************************************************)
(* Inputs of the session's methods.                                        *)
(***************************************************************************)
CitationItemKeys ==
    {"id", "locator", "label", "suppress-author", "author-only", "prefix", "suffix"}

\* A citation item {id, locator?, suppress-author?, author-only?}.
CitationItem(id, locator, suppressAuthor, authorOnly) ==
    [k \in CitationItemKeys |->
        CASE k = "id" -> id
          [] k = "locator" -> locator
          [] k = "suppress-author" -> suppressAuthor
          [] k = "author-only" -> authorOnly
          [] OTHER -> Undefined]

PlainItem(n) == CitationItem(JSNum(n), Undefined, Undefined, Undefined)

Citation(citationID, citationItems, noteIndex) ==
    [citationID |-> citationID, citationItems |-> citationItems,
     properties |-> [noteIndex |-> noteIndex]]

CitA == Citation("a", <<PlainItem(1)>>, JSStr(<<"2">>))
CitB == Citation("b", <<PlainItem(12)>>, JSNum(0))
CitN == Citation(NoID, <<CitationItem(JSNum(12), Undefined, JSBool(TRUE), Undefined),
                         CitationItem(JSNum(1), JSStr(<<"5">>), Undefined, Undefined)>>,
                 JSNum(1))

Missing(n) == [NoFault EXCEPT !.missing = {n}]

\* The inputs the properties quantify over.
AllCitations == {CitA, CitB, CitN}
AllItemIDs == {JSNum(1), JSNum(12)}
AllFormats == {"html", "text", "plain", "rtf"}

SeqsUpTo(S, n) == UNION { [1..k -> S] : k \in 0..n }

\* The inputs the actions of a specification draw from.
LifecycleInputs ==
    [formats |-> {"html", "text", "plain"}, citations |-> {CitA}, itemIDs |-> {JSNum(1)},
     envs |-> Envs \ {Missing(12)}, randomIDs |-> {"r1"}]

DocumentInputs ==
    [formats |-> {"html"}, citations |-> {CitA, CitN}, itemIDs |-> {JSNum(12)},
     envs |-> {NoFault, Missing(12)}, randomIDs |-> {"r1"}]

CitationLists(P) == SeqsUpTo(P.citations, MaxCits)
IdLists(P) == SeqsUpTo(P.itemIDs, MaxUncited)
\* The environments in which only the calls named in fns, or the provider, fail.
EnvsFor(P, fns) == { e \in P.envs : e.raises \in fns \cup {"none"} }

(***************************************************************************)
(* The Engine session: one action per method.                              *)
(***************************************************************************)
SessionInit ==
    /\ engine = NoEngine
    /\ handles = <<>>
    /\ freeCalled = FALSE

\* The state a method leaves behind, whether it returned or raised.
Commit(c) ==
    /\ engine' = c.eng
    /\ handles' = c.hs
    /\ UNCHANGED <<loadVars, pureVars>>

\* The context of the next method invocation on the state c leaves behind.
After(c, env) == Ctx(c.eng, c.hs, env)

\* The context of a method invocation on the current state.
Now(env) == Ctx(engine, handles, env)

\* new Zotero.CiteprocRs.Engine(...): a constructor that raises yields no object.
NewEngine(hs, env, format) ==
    LET c == constructor(Ctx(NoEngine, hs, env), [styleID |-> "apa", _hasBibliography |-> TRUE],
                         "<style/>", "en-US", format, FALSE)
    IN  IF c.raised THEN [c EXCEPT !.eng = NoEngine] ELSE c

Construct(P) ==
    /\ ~engine.constructed
    /\ Len(handles) < MaxHandles
    /\ \E format \in P.formats, env \in EnvsFor(P, {"new"}) :
          Commit(NewEngine(handles, env, format))
    /\ UNCHANGED freeCalled

Free(P) ==
    /\ engine.constructed
    /\ \E ignoreErrors \in BOOLEAN, env \in EnvsFor(P, {"free"}) :
          Commit(free(Ctx(engine, handles, env), ignoreErrors))
    /\ freeCalled' = TRUE

SetOutputFormat(P) ==
    /\ engine.constructed
    /\ \E format \in P.formats, env \in EnvsFor(P, {"setOutputFormat"}) :
          Commit(setOutputFormat(Ctx(engine, handles, env), format))
    /\ UNCHANGED freeCalled

InsertCluster(P) ==
    /\ engine.constructed
    /\ \E citation \in P.citations, env \in EnvsFor(P, {}) :
          Commit(insertCluster(Ctx(engine, handles, env), citation))
    /\ UNCHANGED freeCalled

AppendCitationCluster(P) ==
    /\ engine.constructed
    /\ \E citation \in P.citations, env \in EnvsFor(P, {}) :
          Commit(appendCitationCluster(Ctx(engine, handles, env), citation))
    /\ UNCHANGED freeCalled

PreviewCitationCluster(P) ==
    /\ engine.constructed
    /\ \E citation \in P.citations, pre \in SeqsUpTo(P.citations, 1),
          post \in SeqsUpTo({CitA}, 1), randomID \in P.randomIDs, env \in EnvsFor(P, {}) :
        LET outputFormat == engine._format IN
          Commit(previewCitationCluster(Ctx(engine, handles, env), citation,
                     CitationPairs(pre), CitationPairs(post), outputFormat, randomID))
    /\ UNCHANGED freeCalled

SetClusterOrder(P) ==
    /\ engine.constructed
    /\ \E citations \in CitationLists(P) :
          Commit(setClusterOrder(Ctx(engine, handles, NoFault), CitationPairs(citations)))
    /\ UNCHANGED freeCalled

GetBatchedUpdates ==
    /\ engine.constructed
    /\ Commit(getBatchedUpdates(Ctx(engine, handles, NoFault)))
    /\ UNCHANGED freeCalled

RebuildProcessorState(P) ==
    /\ engine.constructed
    /\ Len(handles) < MaxHandles
    /\ \E citations \in CitationLists(P), format \in P.formats, uncited \in IdLists(P),
          env \in EnvsFor(P, {"free", "new"}) :
          Commit(rebuildProcessorState(Ctx(engine, handles, env), citations, format, uncited))
    /\ UNCHANGED freeCalled

UpdateUncitedItems(P) ==
    /\ engine.constructed
    /\ \E itemIDs \in IdLists(P), env \in EnvsFor(P, {}) :
          Commit(updateUncitedItems(Ctx(engine, handles, env), itemIDs))
    /\ UNCHANGED freeCalled

UpdateItems(P) ==
    /\ engine.constructed
    /\ \E itemIDs \in IdLists(P), env \in EnvsFor(P, {}) :
          Commit(updateItems(Ctx(engine, handles, env), itemIDs))
    /\ UNCHANGED freeCalled

MakeBibliography ==
    /\ engine.constructed
    /\ Commit(makeBibliography(Ctx(engine, handles, NoFault)))
    /\ UNCHANGED freeCalled

\* Before any init() call; "none" is a promise not yet handed out.
LoadIdle ==
    /\ deferred = "none" /\ Driver = FALSE
    /\ pc = [c \in 1..MaxCalls |-> "idle"]
    /\ promise = [c \in 1..MaxCalls |-> "none"]
    /\ loads = 0 /\ fetches = 0 /\ wasmInits = 0

NoQuery == [fn |-> "none"]
NoAnswer == [done |-> FALSE, value |-> <<>>]

PureIdle == query = NoQuery /\ answer = NoAnswer

Init == SessionInit /\ LoadIdle /\ PureIdle

Next ==
    \/ Construct(LifecycleInputs)
    \/ Free(LifecycleInputs)
    \/ SetOutputFormat(LifecycleInputs)
    \/ InsertCluster(LifecycleInputs)
    \/ AppendCitationCluster(LifecycleInputs)
    \/ PreviewCitationCluster(LifecycleInputs)
    \/ SetClusterOrder(LifecycleInputs)
    \/ GetBatchedUpdates
    \/ RebuildProcessorState(LifecycleInputs)
    \/ UpdateUncitedItems(LifecycleInputs)
    \/ UpdateItems(LifecycleInputs)
    \/ MakeBibliography

\* The session under every format and every fault, on a small document.
Spec == Init /\ [][Next]_vars

DocNext ==
    \/ Construct(DocumentInputs)
    \/ Free(DocumentInputs)
    \/ SetOutputFormat(DocumentInputs)
    \/ InsertCluster(DocumentInputs)
    \/ AppendCitationCluster(DocumentInputs)
    \/ PreviewCitationCluster(DocumentInputs)
    \/ SetClusterOrder(DocumentInputs)
    \/ GetBatchedUpdates
    \/ RebuildProcessorState(DocumentInputs)
    \/ UpdateUncitedItems(DocumentInputs)
    \/ UpdateItems(DocumentInputs)
    \/ MakeBibliography

\* The session on documents of several citations, with provider faults.
DocSpec == Init /\ [][DocNext]_vars

(***************************************************************************)
(* Zotero.CiteprocRs.init: each call runs to its next await in one step.   *)
(***************************************************************************)
Calls == 1..MaxCalls

AlreadyStarted_OnlyWhenResolved == deferred = "resolved"

\* if (Zotero.CiteprocRs.deferred)
AlreadyStarted == deferred # "none"

\* The call up to its first await: the test of the memo, then defer(), the
\* subscript load and require (either may throw) and the start of the fetch.
InitCall(c) ==
    /\ pc[c] = "idle"
    /\ IF AlreadyStarted
       THEN /\ pc' = [pc EXCEPT ![c] = "following"]
            /\ promise' = [promise EXCEPT ![c] = "pending"]
            /\ UNCHANGED <<deferred, loads, fetches>>
       ELSE /\ deferred' = "pending"
            /\ loads' = loads + 1
            /\ \/ /\ pc' = [pc EXCEPT ![c] = "done"]
                  /\ promise' = [promise EXCEPT ![c] = "rejected"]
                  /\ UNCHANGED fetches
               \/ /\ pc' = [pc EXCEPT ![c] = "fetching"]
                  /\ promise' = [promise EXCEPT ![c] = "pending"]
                  /\ fetches' = fetches + 1
    /\ UNCHANGED <<Driver, wasmInits, sessionVars, pureVars>>

\* await Zotero.HTTP.request(...) settles; on success CiteprocRs(xhr.response)
\* is started.
FetchSettles(c) ==
    /\ pc[c] = "fetching"
    /\ \/ /\ pc' = [pc EXCEPT ![c] = "initializing"]
          /\ wasmInits' = wasmInits + 1
          /\ UNCHANGED promise
       \/ /\ pc' = [pc EXCEPT ![c] = "done"]
          /\ promise' = [promise EXCEPT ![c] = "rejected"]
          /\ UNCHANGED wasmInits
    /\ UNCHANGED <<deferred, Driver, loads, fetches, sessionVars, pureVars>>

\* await CiteprocRs(xhr.response) settles; on success the Driver class is
\* published and the deferred resolved.
WasmSettles(c) ==
    /\ pc[c] = "initializing"
    /\ \/ /\ Driver' = TRUE
          /\ deferred' = "resolved"
          /\ promise' = [promise EXCEPT ![c] = "resolved"]
       \/ /\ promise' = [promise EXCEPT ![c] = "rejected"]
          /\ UNCHANGED <<Driver, deferred>>
    /\ pc' = [pc EXCEPT ![c] = "done"]
    /\ UNCHANGED <<loads, fetches, wasmInits, sessionVars, pureVars>>

\* The promise of a call that returned deferred.promise follows it.
FollowDeferred(c) ==
    /\ pc[c] = "following"
    /\ deferred = "resolved"
    /\ pc' = [pc EXCEPT ![c] = "done"]
    /\ promise' = [promise EXCEPT ![c] = "resolved"]
    /\ UNCHANGED <<deferred, Driver, loads, fetches, wasmInits, sessionVars, pureVars>>

LoadNext ==
    \/ \E c \in Calls : InitCall(c)
    \/ \E c \in Calls : FetchSettles(c)
    \/ \E c \in Calls : WasmSettles(c)
    \/ \E c \in Calls : FollowDeferred(c)

LoadSpec == Init /\ [][LoadNext]_vars

(***************************************************************************)
(* The helpers on enumerated inputs: a query is drawn, then answered on a  *)
(* freshly constructed Engine.                                             *)
(***************************************************************************)
NoteIndexes ==
    {Undefined, JSNum(0), JSNum(3), JSStr(<<"0">>), JSStr(<<"4">>), JSStr(<<"x">>)}

OrderPairs == {<<"a", JSStr(<<"2">>)>>, <<"b", JSNum(0)>>, <<"c", JSNum(5)>>}

PreviewQueries ==
    { [fn |-> "previewCitationCluster",
       citation |-> Citation("p", <<PlainItem(1)>>, n), pre |-> pre, post |-> post] :
         n \in NoteIndexes, pre \in SeqsUpTo(OrderPairs, MaxPairs),
         post \in SeqsUpTo(OrderPairs, MaxPairs) }

Flags == {Undefined, JSBool(TRUE), JSBool(FALSE)}

FlagItems ==
    { CitationItem(id, Undefined, suppressAuthor, authorOnly) :
         id \in AllItemIDs, suppressAuthor \in Flags, authorOnly \in Flags }

ClusterQueries ==
    { [fn |-> "insertCluster", citation |-> Citation("c", items, JSNum(1)),
       pre |-> <<>>, post |-> <<>>] : items \in SeqsUpTo(FlagItems, MaxItems) }
    \cup
    { [fn |-> "insertCluster", citation |-> Citation(id, <<PlainItem(1)>>, n),
       pre |-> <<>>, post |-> <<>>] : id \in {"c", NoID}, n \in NoteIndexes }

PureInit ==
    /\ SessionInit /\ LoadIdle
    /\ query \in PreviewQueries \cup ClusterQueries
    /\ answer = NoAnswer

FreshSession == NewEngine(<<>>, NoFault, "html")

\* previewCitationCluster(citation, citationsPre, citationsPost, "html"): the
\* answer is the order handed to the handle's previewCluster.
AnswerPreview ==
    /\ query.fn = "previewCitationCluster"
    /\ ~answer.done
    /\ LET c == previewCitationCluster(After(FreshSession, NoFault), query.citation,
                                       query.pre, query.post, "html", "r1")
       IN  answer' = [done |-> TRUE, value |-> c.calls[Len(c.calls)].order]
    /\ UNCHANGED <<query, sessionVars, loadVars>>

\* insertCluster(citation): the answer is the cluster handed to the handle's
\* insertCluster.
AnswerInsertCluster ==
    /\ query.fn = "insertCluster"
    /\ ~answer.done
    /\ LET c == insertCluster(After(FreshSession, NoFault), query.citation)
       IN  answer' = [done |-> TRUE, value |-> c.calls[Len(c.calls)].cluster]
    /\ UNCHANGED <<query, sessionVars, loadVars>>

PureNext == AnswerPreview \/ AnswerInsertCluster

PureSpec == PureInit /\ [][PureNext]_vars

(***************************************************************************)
(* Properties.  A property of a method is stated on every reachable state  *)
(* of the session and every input: the method is applied to the state in   *)
(* the formula, and its result, its handle calls and the handles it leaves *)
(* are what the formula constrains.                                        *)
(***************************************************************************)
LiveHandles(hs) == { h \in 1..Len(hs) : hs[h].live }

FnIndexes(calls, fn) == { i \in 1..Len(calls) : calls[i].fn = fn }

\* The handle this._driver names, when it is live.
HasLiveHandle ==
    /\ engine.constructed
    /\ engine._driver \in 1..Len(handles)
    /\ handles[engine._driver].live

\* C1: at most one handle of the session is live in every reachable state,
\* and whenever _resetDriver constructs a handle (whatever raises in it) the
\* call just before the construction is the release of the previous handle,
\* which is no longer live when the new one exists.
C1_AtMostOneLiveHandle ==
    /\ Cardinality(LiveHandles(handles)) <= 1
    /\ engine.constructed =>
         \A env \in Envs :
            LET c == _resetDriver(Now(env))
            IN  /\ Cardinality(LiveHandles(c.hs)) <= 1
                /\ \A i \in FnIndexes(c.calls, "new") :
                      /\ i > 1
                      /\ c.calls[i - 1].fn = "free"
                      /\ c.calls[i - 1].h = engine._driver
                      /\ (Len(c.hs) > Len(handles) => ~c.hs[engine._driver].live)

\* C1 witness: the session has reset its driver: an earlier handle is
\* released and the handle it now holds is live.
C1_Witness ==
    /\ engine.constructed
    /\ Len(handles) >= 2
    /\ engine._driver = Len(handles)
    /\ handles[engine._driver].live
    /\ ~handles[1].live

\* A call that reaches a released handle, or constructs a new one.
ReachesReleasedOrNew(call) ==
    \/ call.fn = "new"
    \/ call.h \in 1..Len(handles) /\ ~handles[call.h].live

Quiet(c) == \A i \in 1..Len(c.calls) : ~ReachesReleasedOrNew(c.calls[i])

\* C2: once free() has been invoked, no method of the session forwards a
\* call to the released handle or constructs a new handle.
C2_FreedIsTerminal ==
    freeCalled =>
       \A env \in Envs :
          /\ \A format \in AllFormats : Quiet(setOutputFormat(Now(env), format))
          /\ \A citation \in AllCitations :
                /\ Quiet(insertCluster(Now(env), citation))
                /\ Quiet(previewCitationCluster(Now(env), citation, <<>>, <<>>, "html", "r1"))
          /\ Quiet(setClusterOrder(Now(env), <<>>))
          /\ Quiet(getBatchedUpdates(Now(env)))
          /\ Quiet(updateUncitedItems(Now(env), <<>>))
          /\ Quiet(makeBibliography(Now(env)))
          /\ Quiet(rebuildProcessorState(Now(env), <<>>, "html", <<>>))
          /\ \A ignoreErrors \in BOOLEAN : Quiet(free(Now(env), ignoreErrors))

\* C3: the engine load is started at most once: one subscript load, one
\* fetch of the wasm binary, one wasm initialization, however many calls of
\* init() there are and whatever the outcome of the attempt.
C3_LoadStartedAtMostOnce == loads <= 1 /\ fetches <= 1 /\ wasmInits <= 1

\* C3 witness: the attempt failed and a later call of init() found the memo:
\* it started nothing.
C3_Witness ==
    /\ loads = 1
    /\ deferred = "pending"
    /\ \E c1, c2 \in Calls :
          /\ promise[c1] = "rejected"
          /\ pc[c2] = "following"

\* No step of any init() call is left to run: every call has been made, the
\* attempt has settled and every promise that can follow the deferred has.
LoadQuiescent ==
    /\ \A c \in Calls : pc[c] \in {"done", "following"}
    /\ \A c \in Calls : pc[c] = "following" => deferred # "resolved"

\* C4: all callers of init() observe the same completion: when nothing is
\* left to run, no caller's promise is pending while another caller's has
\* settled, and all have settled the same way.
C4_AllCallersObserveCompletion ==
    LoadQuiescent =>
       \A c1, c2 \in Calls : promise[c1] # "pending" /\ promise[c1] = promise[c2]

\* The insertCluster calls of a rebuild carry the citations' ids, in order.
ClusterIdsInserted(calls) ==
    LET ins == SelectSeq(calls, LAMBDA call : call.fn = "insertCluster")
    IN  [i \in 1..Len(ins) |-> ins[i].cluster.id]

CitationIds(citations) == [i \in 1..Len(citations) |-> citations[i].citationID]

\* The handle calls of a rebuild that returned: free of the old handle, one
\* construction with the new format, then on the new handle the citations'
\* insertCluster calls in list order (each after its insertReference calls),
\* one setClusterOrder of the same list, the uncited insertReference calls
\* and one includeUncited.
RebuildShape(calls, old, citations, format, uncited) ==
    LET n == Len(calls)
        orders == FnIndexes(calls, "setClusterOrder")
    IN  /\ calls[1].fn = "free" /\ calls[1].h = old
        /\ calls[2].fn = "new" /\ calls[2].options.format = format
        /\ FnIndexes(calls, "free") = {1} /\ FnIndexes(calls, "new") = {2}
        /\ \A i \in 3..n : calls[i].h = calls[2].h
        /\ ClusterIdsInserted(calls) = CitationIds(citations)
        /\ Cardinality(orders) = 1
        /\ \A j \in orders :
              /\ [k \in 1..Len(calls[j].order) |-> calls[j].order[k].id]
                    = CitationIds(citations)
              /\ \A k \in (j + 1)..(n - 1) : calls[k].fn = "insertReference"
              /\ n - 1 - j = Len(uncited)
        /\ calls[n].fn = "includeUncited"
        /\ FnIndexes(calls, "includeUncited") = {n}

\* No insertCluster on the old handle, none after a setClusterOrder.
RebuildSafe(calls, old) ==
    \A i \in FnIndexes(calls, "insertCluster") :
       /\ calls[i].h # old
       /\ \A j \in FnIndexes(calls, "setClusterOrder") : i < j

\* C5: rebuildProcessorState issues its handle calls in this order: release
\* of the old handle, construction of one new handle with the new format,
\* the citations' insertCluster calls in list order on the new handle, one
\* setClusterOrder built from the same list in list order, then the uncited
\* registration ending in one includeUncited.  Whatever raises, no
\* insertCluster reaches the old handle and no insertCluster follows the
\* setClusterOrder.
C5_RebuildCallOrder ==
    engine.constructed =>
      \A citations \in SeqsUpTo(DocumentInputs.citations, MaxCits) :
         /\ \A uncited \in SeqsUpTo({JSNum(1)}, MaxUncited) :
               LET c == rebuildProcessorState(Now(NoFault), citations, "plain", uncited)
               IN  /\ ~c.raised
                   /\ RebuildShape(c.calls, engine._driver, citations, "plain", uncited)
         /\ \A env \in Envs :
               LET uncited == <<JSNum(12)>>
                   c == rebuildProcessorState(Now(env), citations, "rtf", uncited)
               IN  /\ RebuildSafe(c.calls, engine._driver)
                   /\ ~c.raised =>
                        RebuildShape(c.calls, engine._driver, citations, "rtf", uncited)

\* C5 witness: a rebuild of two citations succeeds here, on a session whose
\* old handle holds clusters: it issues two insertCluster calls.
C5_Witness ==
    /\ HasLiveHandle
    /\ handles[engine._driver].clusters # {}
    /\ LET c == rebuildProcessorState(Now(NoFault), <<CitN, CitA>>, "plain", <<JSNum(12)>>)
       IN  /\ ~c.raised
           /\ ClusterIdsInserted(c.calls) = <<NoID, "a">>

\* C6: a successful rebuildProcessorState followed by getBatchedUpdates()
\* yields exactly the citationIDs passed in, whatever the session held before.
C6_RebuildThenUpdates ==
    engine.constructed =>
      \A citations \in SeqsUpTo(AllCitations, MaxCits), uncited \in {<<>>, <<JSNum(1)>>} :
         LET c == rebuildProcessorState(Now(NoFault), citations, "html", uncited)
             u == getBatchedUpdates(After(c, NoFault))
         IN  ~c.raised => /\ ~u.raised
                          /\ u.ret = Range(CitationIds(citations))

\* C6 witness: the handle holds a cluster with an update pending that is not
\* in the list a rebuild is given, and the updates after that rebuild are
\* the list's ids alone.
C6_Witness ==
    /\ HasLiveHandle
    /\ "a" \in handles[engine._driver].updates
    /\ LET c == rebuildProcessorState(Now(NoFault), <<CitB>>, "html", <<>>)
       IN  ~c.raised /\ getBatchedUpdates(After(c, NoFault)).ret = {"b"}

\* The handle's document state without the registered references.
Committed(h) ==
    [format |-> h.format, clusters |-> h.clusters, order |-> h.order,
     uncited |-> h.uncited, updates |-> h.updates]

PreviewInputs ==
    { <<citation, pre, post>> : citation \in AllCitations,
         pre \in SeqsUpTo({<<"a", JSNum(1)>>}, 1), post \in SeqsUpTo({<<"b", JSNum(0)>>}, 1) }

\* C7 as stated: after previewCitationCluster returns, the handle's state
\* (registered references, clusters, order, uncited set, format) is what it
\* was before the call.
C7_PreviewChangesNothing ==
    HasLiveHandle =>
      \A in \in PreviewInputs, env \in DocumentInputs.envs :
         LET c == previewCitationCluster(Now(env), in[1], in[2], in[3], "html", "r1")
         IN  ~c.raised => c.hs[engine._driver] = handles[engine._driver]

RefIds(citation) ==
    { TemplateStr(citation.citationItems[i].id) : i \in 1..Len(citation.citationItems) }

\* C7 amended: previewCitationCluster leaves the handle's clusters, order,
\* uncited set, pending updates and format as they were, and registers
\* the previewed citation's items: when it returns, the registered
\* references are those of before and the citation's item ids; when it
\* raises, they lie between the two.
C7_PreviewOnlyRegistersReferences ==
    HasLiveHandle =>
      \A in \in PreviewInputs, env \in DocumentInputs.envs :
         LET c == previewCitationCluster(Now(env), in[1], in[2], in[3], "html", "r1")
             before == handles[engine._driver]
             after == c.hs[engine._driver]
         IN  /\ Committed(after) = Committed(before)
             /\ Len(c.hs) = Len(handles)
             /\ c.eng = engine
             /\ before.refs \subseteq after.refs
             /\ after.refs \subseteq before.refs \cup RefIds(in[1])
             /\ ~c.raised => after.refs = before.refs \cup RefIds(in[1])

\* C7 witness: the handle holds a cluster and an order, and a preview of a
\* citation of two items, one of them not yet registered, returns here.
C7_Witness ==
    /\ HasLiveHandle
    /\ handles[engine._driver].clusters # {}
    /\ handles[engine._driver].order # <<>>
    /\ ~(RefIds(CitN) \subseteq handles[engine._driver].refs)
    /\ ~previewCitationCluster(Now(NoFault), CitN, <<>>, <<>>, "html", "r1").raised

\* The note a note index stands for: the integer it normalizes to, when
\* that is not zero.
NoteOf(noteIndex) ==
    CASE noteIndex = JSStr(<<"4">>) -> JSNum(4)
      [] noteIndex = JSStr(<<"2">>) -> JSNum(2)
      [] noteIndex.ty = "number" /\ noteIndex.num # 0 -> noteIndex
      [] OTHER -> Undefined

\* C8: the order previewCitationCluster passes to the handle has length
\* len(citationsPre) + 1 + len(citationsPost), the previewed cluster's entry
\* at index len(citationsPre) (counted from 0), the normalized entries of
\* citationsPre before it and of citationsPost after it, in input order.
C8_PreviewOrderShape ==
    (answer.done /\ query.fn = "previewCitationCluster") =>
       LET order == answer.value
           pre == query.pre
           post == query.post
       IN  /\ Len(order) = Len(pre) + 1 + Len(post)
           /\ order[Len(pre) + 1] =
                 [id |-> NoID, note |-> NoteOf(query.citation.properties.noteIndex)]
           /\ \A i \in 1..Len(pre) :
                 order[i] = [id |-> pre[i][1], note |-> NoteOf(pre[i][2])]
           /\ \A i \in 1..Len(post) :
                 order[Len(pre) + 1 + i] = [id |-> post[i][1], note |-> NoteOf(post[i][2])]

\* C8 witness: a preview between two clusters before and one after, with a
\* string note index, has been answered.
C8_Witness ==
    /\ answer.done
    /\ query.fn = "previewCitationCluster"
    /\ Len(query.pre) = 2 /\ Len(query.post) >= 1
    /\ query.pre[1] # query.pre[2]
    /\ answer.value[3].note = JSNum(4)

\* "text" is an alias of "plain".
NormalFormat(format) == IF format = "text" THEN "plain" ELSE format

\* C9: a setOutputFormat call whose normalized format is the session's
\* current format issues no handle call; any other issues one
\* setOutputFormat with the normalized format; and of two consecutive calls
\* with the same normalized format the second issues none.
C9_SetOutputFormatIdempotent ==
    engine.constructed =>
      \A f1 \in AllFormats, env1 \in Envs :
         LET c1 == setOutputFormat(Now(env1), f1)
         IN  /\ NormalFormat(f1) = engine._format => c1.calls = <<>>
             /\ Len(c1.calls) <= 1
             /\ \A i \in 1..Len(c1.calls) :
                   c1.calls[i].fn = "setOutputFormat" /\ c1.calls[i].fmt = NormalFormat(f1)
             /\ \A f2 \in AllFormats, env2 \in Envs :
                   NormalFormat(f2) = NormalFormat(f1) =>
                      setOutputFormat(After(c1, env2), f2).calls = <<>>

\* C9 witness: the session is in "html" on a live handle, where a call with
\* "text" switches the handle to "plain" and a second call with "plain"
\* issues nothing.
C9_Witness ==
    /\ HasLiveHandle
    /\ engine._format = "html"
    /\ LET c1 == setOutputFormat(Now(NoFault), "text")
       IN  /\ Len(c1.calls) = 1
           /\ c1.hs[engine._driver].format = "plain"
           /\ setOutputFormat(After(c1, NoFault), "plain").calls = <<>>

\* The string an item id is normalized to.
IdString(id) == IF id = JSNum(1) THEN <<"1">> ELSE <<"1", "2">>

\* C10: after a successful updateUncitedItems or updateItems call, and after
\* a second one, the handle's uncited-inclusion set is the set of the
\* string-normalized ids of the latest call; updateItems leaves the state
\* updateUncitedItems leaves.
C10_UncitedReplaced ==
    HasLiveHandle =>
      \A ids1, ids2 \in SeqsUpTo(AllItemIDs, MaxUncited) :
         LET c1 == updateUncitedItems(Now(NoFault), ids1)
             c2 == updateItems(After(c1, NoFault), ids2)
             a1 == updateItems(Now(NoFault), ids1)
         IN  /\ ~c1.raised /\ ~c2.raised
             /\ Range(c1.hs[engine._driver].uncited) = { IdString(ids1[i]) : i \in 1..Len(ids1) }
             /\ Range(c2.hs[engine._driver].uncited) = { IdString(ids2[i]) : i \in 1..Len(ids2) }
             /\ a1.hs = c1.hs /\ a1.eng = c1.eng /\ a1.calls = c1.calls

\* C10 witness: the handle's uncited set is {"12"}, and an update with item
\* 1 alone returns here.
C10_Witness ==
    /\ HasLiveHandle
    /\ handles[engine._driver].uncited = <<IdString(JSNum(12))>>
    /\ ~updateUncitedItems(Now(NoFault), <<JSNum(1)>>).raised

\* The environments in which the handle's free() raises.
ReleaseFails == { env \in Envs : env.raises = "free" }

\* C11: a release failure is swallowed by free(true) alone.  When the
\* handle's free() raises, free(false) raises and free(true) returns;
\* _resetDriver raises, having issued the free call alone and constructed
\* no handle; rebuildProcessorState raises likewise, with no insertCluster,
\* setClusterOrder, insertReference or includeUncited call issued.
C11_ReleaseFailurePropagates ==
    engine.constructed =>
      \A env \in ReleaseFails :
         LET release == <<[fn |-> "free", h |-> engine._driver]>>
             r == _resetDriver(Now(env))
         IN  /\ free(Now(env), FALSE).raised
             /\ ~free(Now(env), TRUE).raised
             /\ free(Now(env), TRUE).calls = release
             /\ r.raised /\ r.calls = release
             /\ Len(r.hs) = Len(handles) /\ r.eng._driver = engine._driver
             /\ \A citations \in SeqsUpTo(AllCitations, MaxCits), uncited \in {<<>>, <<JSNum(1)>>} :
                   LET c == rebuildProcessorState(Now(env), citations, "html", uncited)
                   IN  /\ c.raised /\ c.calls = release
                       /\ Len(c.hs) = Len(handles) /\ c.eng._driver = engine._driver

\* C11 witness: a free() of the session has failed and left the handle
\* live, and a rebuild whose release fails again raises here.
C11_Witness ==
    /\ freeCalled
    /\ HasLiveHandle
    /\ handles[engine._driver].clusters # {}
    /\ rebuildProcessorState(Now([NoFault EXCEPT !.raises = "free", !.released = FALSE]),
                             <<CitA>>, "html", <<>>).raised

\* The positions of the citation's items the provider has no record of.
Unresolved(citation, env) ==
    { i \in 1..Len(citation.citationItems) : citation.citationItems[i].id.num \in env.missing }

Least(S) == CHOOSE i \in S : \A j \in S : i <= j

\* C12: when sys.retrieveItem raises for an item of the citation,
\* insertCluster raises, the handle's insertCluster is not called, the only
\* handle calls are the insertReference calls of the items before the first
\* unresolved one, and the handle's inserted clusters and pending updates
\* are those of before the call.
C12_ResolutionFailureAborts ==
    HasLiveHandle =>
      \A citation \in AllCitations, n \in {1, 12} :
         LET env == Missing(n)
             c == insertCluster(Now(env), citation)
             k == Unresolved(citation, env)
         IN  k # {} =>
               /\ c.raised
               /\ FnIndexes(c.calls, "insertCluster") = {}
               /\ FnIndexes(c.calls, "insertReference") = 1..(Least(k) - 1)
               /\ Len(c.calls) = Least(k) - 1
               /\ c.hs[engine._driver].clusters = handles[engine._driver].clusters
               /\ c.hs[engine._driver].updates = handles[engine._driver].updates

\* C12 witness: the handle holds a cluster, and the insertion of a citation
\* whose second item cannot be resolved raises here after the first item's
\* insertReference.
C12_Witness ==
    /\ HasLiveHandle
    /\ handles[engine._driver].clusters # {}
    /\ LET c == insertCluster(Now(Missing(1)), CitN)
       IN  c.raised /\ Len(c.calls) = 1 /\ c.calls[1].fn = "insertReference"

\* The modes the two flags of a citation item allow.
ModesOf(citationItem) ==
    LET suppress == citationItem["suppress-author"] = JSBool(TRUE)
        only == citationItem["author-only"] = JSBool(TRUE)
    IN  CASE ~suppress /\ ~only -> {NoMode}
          [] suppress /\ ~only -> {"SuppressAuthor"}
          [] ~suppress /\ only -> {"AuthorOnly"}
          [] OTHER -> {"SuppressAuthor", "AuthorOnly"}

\* C13: the cluster insertCluster builds from a citation of N items has N
\* cites, cite i carrying the string-normalized id of item i, with no mode
\* when neither flag of the item is set, "SuppressAuthor" when
\* suppress-author alone is set, "AuthorOnly" when author-only alone is set,
\* and one of the two when both are set.
C13_CitesFollowItems ==
    (answer.done /\ query.fn = "insertCluster") =>
       LET items == query.citation.citationItems
           cites == answer.value.cites
       IN  /\ Len(cites) = Len(items)
           /\ \A i \in 1..Len(items) :
                 /\ cites[i].id = IdString(items[i].id)
                 /\ cites[i].mode \in ModesOf(items[i])

\* C13 witness: the cluster of a citation of two items with different ids
\* has been built, the first item with both flags set and the second with
\* suppress-author alone.
C13_Witness ==
    /\ answer.done
    /\ query.fn = "insertCluster"
    /\ Len(query.citation.citationItems) = 2
    /\ query.citation.citationItems[1] = CitationItem(JSNum(12), Undefined, JSBool(TRUE), JSBool(TRUE))
    /\ query.citation.citationItems[2] = CitationItem(JSNum(1), Undefined, JSBool(TRUE), JSBool(FALSE))
    /\ answer.value.cites[2].mode = "SuppressAuthor"

\* C14: every cluster forwarded to the handle's insertCluster, by
\* insertCluster or by a rebuildProcessorState, carries a defined id, and
\* the entries of the rebuild's cluster order carry the clusters' ids.
C14_ClusterIdsDefined ==
    HasLiveHandle =>
      /\ \A citation \in AllCitations :
            LET c == insertCluster(Now(NoFault), citation)
            IN  \A i \in FnIndexes(c.calls, "insertCluster") : c.calls[i].cluster.id # NoID
      /\ \A citations \in SeqsUpTo(AllCitations, MaxCits) :
            LET c == rebuildProcessorState(Now(NoFault), citations, "html", <<>>)
            IN  /\ \A i \in FnIndexes(c.calls, "insertCluster") : c.calls[i].cluster.id # NoID
                /\ \A j \in FnIndexes(c.calls, "setClusterOrder") :
                      [k \in 1..Len(c.calls[j].order) |-> c.calls[j].order[k].id]
                         = ClusterIdsInserted(c.calls)

NotePairs ==
    OrderPairs \cup {<<"d", JSStr(<<"x">>)>>, <<"e", Undefined>>, <<"f", JSStr(<<"0">>)>>}

\* C16: setClusterOrder(pairs) issues one handle call, setClusterOrder, with
\* a sequence of the length and order of the pairs, entry i having the id
\* of pair i and the note its note index normalizes to (none for an absent
\* index, 0, "0" or an unparsable string); the handle's order is then this
\* sequence, whatever it was, and the rest of the handle is unchanged.
C16_OrderSubmittedWholesale ==
    HasLiveHandle =>
      \A pairs \in SeqsUpTo(NotePairs, MaxCits) :
         LET c == setClusterOrder(Now(NoFault), pairs)
             expected == [i \in 1..Len(pairs) |->
                             [id |-> pairs[i][1], note |-> NoteOf(pairs[i][2])]]
         IN  /\ ~c.raised
             /\ Len(c.calls) = 1
             /\ c.calls[1].fn = "setClusterOrder" /\ c.calls[1].h = engine._driver
             /\ c.calls[1].order = expected
             /\ c.hs[engine._driver] = [handles[engine._driver] EXCEPT !.order = expected]

\* C16 witness: the handle's order is that of two pairs, the first with the
\* note of the string index "2", and a setClusterOrder of one pair with
\* index 0 replaces it here.
C16_Witness ==
    /\ HasLiveHandle
    /\ Len(handles[engine._driver].order) = 2
    /\ handles[engine._driver].order[1] = [id |-> "a", note |-> JSNum(2)]
    /\ setClusterOrder(Now(NoFault), <<<<"b", JSNum(0)>>>>).hs[engine._driver].order
          = <<[id |-> "b", note |-> Undefined]>>

\* An entry's value as the output format presents it.
Presented(format, value) ==
    CASE format = "html" -> <<"<div class=\"csl-entry\">">> \o value \o <<"</div>">>
      [] format = "plain" -> value \o <<"\n">>
      [] OTHER -> value

\* C17: makeBibliography returns strings and entry_ids of the length and
\* order of the entries the handle returns: string i is the value of entry
\* i in a csl-entry div when the session's format is "html", followed by a
\* newline when it is "plain", unchanged otherwise, and entry_ids[i] is the
\* one-element sequence of entry i's id.  Stated in every format
\* setOutputFormat can put the session in.
C17_BibliographyFollowsEntries ==
    HasLiveHandle =>
      \A format \in AllFormats :
         LET c1 == setOutputFormat(Now(NoFault), format)
             entries == BibliographyEntries(c1.hs[engine._driver])
             c == makeBibliography(After(c1, NoFault))
         IN  /\ ~c.raised
             /\ c1.eng._format = NormalFormat(format)
             /\ Len(c.ret[2]) = Len(entries)
             /\ Len(c.ret[1].entry_ids) = Len(entries)
             /\ \A i \in 1..Len(entries) :
                   /\ c.ret[2][i] = Presented(c1.eng._format, entries[i].value)
                   /\ c.ret[1].entry_ids[i] = <<entries[i].id>>

\* C17 witness: the handle's bibliography has two entries or more, and
\* makeBibliography returns here.
C17_Witness ==
    /\ HasLiveHandle
    /\ Len(BibliographyEntries(handles[engine._driver])) >= 2
    /\ LET c == makeBibliography(Now(NoFault))
       IN  ~c.raised /\ Len(c.ret[2]) >= 2 /\ c.ret[2][1] # c.ret[2][2]

\* C18: when the format most recently requested of the session (by the
\* constructor, setOutputFormat or rebuildProcessorState) is "text" or
\* "plain", the recorded format is "plain" and every string makeBibliography
\* returns ends with a newline.
C18_TextIsPlainEverywhere ==
    (engine.constructed /\ engine._format \in {"text", "plain"}) =>
       /\ engine._format = "plain"
       /\ HasLiveHandle =>
            LET c == makeBibliography(Now(NoFault))
            IN  \A i \in 1..Len(c.ret[2]) : c.ret[2][i][Len(c.ret[2][i])] = "\n"

\* C19: whenever the session holds a live handle, the recorded format
\* _format is the output format the handle is in.
C19_RecordedFormatIsHandleFormat ==
    HasLiveHandle => engine._format = handles[engine._driver].format

\* The reference id was given to insertReference on the handle of call i,
\* earlier in the same method.
RegisteredBefore(calls, i, id) ==
    \E j \in 1..(i - 1) :
       calls[j].fn = "insertReference" /\ calls[j].h = calls[i].h /\ calls[j].ref.id = id

\* Every cluster a method forwards goes to the handle the session then
\* holds, which is live, with each cite id registered on that handle
\* earlier in the method; every id given to includeUncited likewise.
Integrity(c) ==
    \A i \in 1..Len(c.calls) :
       LET call == c.calls[i]
       IN  /\ call.fn \in {"insertCluster", "previewCluster"} =>
                /\ call.h = c.eng._driver
                /\ \A k \in 1..Len(call.cluster.cites) :
                      /\ RegisteredBefore(c.calls, i, call.cluster.cites[k].id)
                      /\ c.hs[call.h].live
                      /\ call.cluster.cites[k].id \in c.hs[call.h].refs
           /\ call.fn = "includeUncited" =>
                \A k \in 1..Len(call.ids) :
                   /\ RegisteredBefore(c.calls, i, call.ids[k])
                   /\ c.hs[call.h].live
                   /\ call.ids[k] \in c.hs[call.h].refs

\* C20: whenever a method forwards a cluster to the handle (insertCluster
\* or previewCluster), every cite id of the cluster has been registered
\* with insertReference on that same live handle, not on one an earlier
\* reset released, and every id passed to includeUncited was registered on
\* that handle earlier in the same call; so for insertCluster,
\* appendCitationCluster, previewCitationCluster, updateUncitedItems and
\* rebuildProcessorState, whichever item lookup fails.
C20_ReferentialIntegrity ==
    engine.constructed =>
      \A env \in {NoFault, Missing(1), Missing(12)} :
         /\ \A citation \in AllCitations :
               /\ Integrity(insertCluster(Now(env), citation))
               /\ Integrity(appendCitationCluster(Now(env), citation))
               /\ Integrity(previewCitationCluster(Now(env), citation, <<>>, <<>>, "html", "r1"))
         /\ \A ids \in SeqsUpTo(AllItemIDs, MaxUncited) :
               Integrity(updateUncitedItems(Now(env), ids))
         /\ \A citations \in SeqsUpTo(DocumentInputs.citations, MaxCits) :
               Integrity(rebuildProcessorState(Now(env), citations, "html",
                                               <<JSNum(12), JSNum(1)>>))

\* C20 witness: the session has reset its driver, the handle it holds has a
\* cluster whose cites are registered on it while the references of the
\* released handle are gone, and a further rebuild returns here.
C20_Witness ==
    /\ HasLiveHandle
    /\ Len(handles) >= 2
    /\ ~handles[1].live
    /\ \E cl \in handles[engine._driver].clusters :
          /\ Len(cl.cites) = 2
          /\ \A k \in 1..Len(cl.cites) : cl.cites[k].id \in handles[engine._driver].refs
    /\ ~rebuildProcessorState(Now(NoFault), <<CitA, CitN>>, "html", <<JSNum(12)>>).raised

====
